---- MODULE Spec2Model ----
(***************************************************************************)
(* cli-telemetry: span capture (telemetry.py), the SQLite span store and   *)
(* the flame aggregator (exporters/view_flame.py).                         *)
(*                                                                         *)
(* Execution contexts are threads and asyncio tasks.  The span stack is    *)
(* kept in threading.local (telemetry.py:27), so it is indexed by the      *)
(* thread a context runs on: two tasks of one thread read the same stack.  *)
(***************************************************************************)
EXTENDS Integers, Sequences, FiniteSets, TLC

\* ------------------------------------------------------------------ bounds
MaxSpans == 2
MaxTicks == 1
MaxCloses == 2
MaxInitRuns == 2

\* ------------------------------------------------- contexts and failures
Ctx == {"c1", "c2", "c3"}
Threads == {"t1", "t2"}
\* c1 and c2 are two asyncio tasks of thread t1; c3 is the only context of t2
ThreadOf == [c \in Ctx |-> IF c = "c3" THEN "t2" ELSE "t1"]

\* what the wrapped work can do: return, raise an Exception subclass, or
\* raise a BaseException that is not an Exception (KeyboardInterrupt)
Failures == {"ValueError", "KeyboardInterrupt"}
Outcomes == {"return"} \cup Failures
IsException(f) == f = "ValueError"
\* str(exc)
Str(f) == IF f = "ValueError" THEN "bad value" ELSE "interrupted"

VARIABLES
    pc,            \* position of each context inside start_session/init_telemetry
    lock,          \* _LOCK: "free" or the context holding it
    initialized,   \* _initialized
    conn,          \* _conn: "None", "open" or "closed"
    trace_id,      \* _trace_id: 0 is None
    root_span,     \* _root_span: 0 is None
    stack,         \* _tls.span_stack of every thread
    spans,         \* the Span objects, by creation order
    calls,         \* per context: the wrappers whose work is running
    rows,          \* table otel_spans
    now,           \* time.time_ns()
    initRuns,      \* how many times the body of init_telemetry ran
    bt_lines,      \* build_tree: folded_lines
    bt_i,          \* build_tree: lines consumed so far
    bt_root,       \* build_tree: root, as path |-> _time
    ex             \* the exporter run: load_spans, export_folded, build_path

sessVars == <<pc, lock, initialized, conn, trace_id, root_span, initRuns>>
spanVars == <<stack, spans, calls, rows>>
btVars == <<bt_lines, bt_i, bt_root>>
toolVars == <<bt_lines, bt_i, bt_root, ex>>
vars == <<pc, lock, initialized, conn, trace_id, root_span, stack, spans,
          calls, rows, now, initRuns, bt_lines, bt_i, bt_root, ex>>

\* ------------------------------------------------------------- Span model
SpanName(kind) ==
    CASE kind = "root" -> "cli_invocation"
      [] kind = "profile" -> "func"
      [] kind = "block" -> "block"
      [] OTHER -> "span"

\* Span.__init__ followed by the assignments of __enter__
NewSpan(kind, c, parent) ==
    [ kind |-> kind,
      name |-> SpanName(kind),
      parent |-> parent,
      span_id |-> Len(spans) + 1,
      start_time |-> now,
      end_time |-> 0,
      status_code |-> 0,
      exception |-> "absent",
      tag |-> "absent",    \* attributes["k"]
      tagged_by |-> "none", \* the call that last wrote attributes["k"]
      opener |-> c,        \* the context that opened it
      closer |-> "",       \* the thread of the last __exit__
      closes |-> 0,        \* times closed, counted up to MaxCloses
      work |-> "none",
      delivered |-> "none" ]

Top(st) == IF st = <<>> THEN 0 ELSE st[Len(st)]

\* _get_span_stack
_get_span_stack(c) == stack[ThreadOf[c]]

\* a stack shared by the whole process: the parent is the newest span
EnterParent_ProcessWide(c) == Len(spans)

\* the parent __enter__ assigns: stack[-1] if the stack is not empty
EnterParent(c) == Top(_get_span_stack(c))

\* the stack after __enter__
EnterStack(c, s) == [stack EXCEPT ![ThreadOf[c]] = Append(@, s)]

\* an unconditional stack.pop()
PopIfTop_Always(st, s) ==
    IF st # <<>> THEN SubSeq(st, 1, Len(st) - 1) ELSE st

\* the stack after __exit__: popped only when the span is the top
PopIfTop(st, s) ==
    IF st # <<>> /\ st[Len(st)] = s THEN SubSeq(st, 1, Len(st) - 1) ELSE st

ExitStack(c, s) == [stack EXCEPT ![ThreadOf[c]] = PopIfTop(@, s)]

\* the conversion of _export_span: int(ns / 1_000)
ToMicros(ns) == ns \div 1000

\* the row _export_span inserts
Row(sp) ==
    [ trace_id |-> trace_id,
      span_id |-> sp.span_id,
      parent_span_id |-> sp.parent,
      name |-> sp.name,
      start_time |-> ToMicros(sp.start_time),
      end_time |-> ToMicros(sp.end_time),
      exception |-> sp.exception,
      tag |-> sp.tag,
      status_code |-> sp.status_code ]

\* _export_span: nothing without a connection, sqlite3.ProgrammingError on a
\* closed connection, an inserted and committed row otherwise
ExportRaises_NoHandle == conn # "open"
ExportRaises == conn = "closed"
ExportRows(sp) == IF conn = "open" THEN Append(rows, Row(sp)) ELSE rows

\* the fields __exit__(exc_type, exc, tb) assigns; exc = "return" is None
ExitFields(sp, exc, c) ==
    [sp EXCEPT !.end_time = now,
               !.closer = ThreadOf[c],
               !.exception = IF exc # "return" THEN Str(exc) ELSE @,
               !.status_code = IF exc # "return" THEN 1 ELSE @,
               !.closes = IF @ < MaxCloses THEN @ + 1 ELSE @]

\* Span.set_attribute: self.attributes[key] = value
set_attribute(sp, value, api) == [sp EXCEPT !.tag = value, !.tagged_by = api]

\* the fields the except clause of profile and profile_block assigns
MarkFailed(sp, exc) ==
    [sp EXCEPT !.exception = Str(exc), !.status_code = 1]

\* what the caller of a wrapper receives
Delivered(work) == IF ExportRaises THEN "ProgrammingError" ELSE work

Idle(c) == pc[c] = "idle"
\* a task runs synchronous code to its end before another task of the same
\* thread is scheduled
ThreadFree(c) ==
    \A d \in Ctx \ {c} : ThreadOf[d] = ThreadOf[c] => pc[d] = "idle"

\* ------------------------------------------------ view_flame.build_tree
\* A line is a sequence of characters, a frame too; a path is a sequence of
\* frames; the tree {'_time', 'children'} is the function path |-> _time,
\* the root being the empty path.
MaxLines == 2
MaxDepth == 2
Frames == {<<"a">>, <<"b">>}
Durs == {1, 25}
Paths == UNION {[1..n -> Frames] : n \in 1..MaxDepth}
Digit == <<"0", "1", "2", "3", "4", "5", "6", "7", "8", "9">>

RECURSIVE Digits(_)
\* str(n) for n >= 0
Digits(n) ==
    IF n < 10 THEN <<Digit[n + 1]>>
    ELSE Digits(n \div 10) \o <<Digit[(n % 10) + 1]>>

RECURSIVE Join(_)
\* ';'.join(path)
Join(path) ==
    IF Len(path) = 1 THEN path[1]
    ELSE path[1] \o <<";">> \o Join(Tail(path))

\* str(n)
IntStr(n) == IF n < 0 THEN <<"-">> \o Digits(0 - n) ELSE Digits(n)

\* f"{';'.join(stack)} {dur}"
FoldedLine(path, dur) == Join(path) \o <<" ">> \o IntStr(dur)

\* the lines export_folded prints, and some as readlines() returns them
WellFormedLines ==
    {FoldedLine(p, d) : p \in Paths, d \in Durs}
        \cup {FoldedLine(<<f>>, d) \o <<"\n">> : f \in Frames, d \in Durs}
\* a line whose duration is negative: int() accepts the sign
SignedLines == {<<"a", " ", "-", "1">>}
\* empty, without a space before a duration, with a duration that is no
\* integer
MalformedLines ==
    {<<>>, <<"\n">>, <<"a">>, <<" ", "5">>, <<"a", " ", "x">>, <<"a", " ", "1", "x">>}
Lines == WellFormedLines \cup SignedLines \cup MalformedLines

IsSpace(ch) == ch \in {" ", "\n"}

RECURSIVE LStrip(_)
LStrip(l) == IF l # <<>> /\ IsSpace(Head(l)) THEN LStrip(Tail(l)) ELSE l
RECURSIVE RStrip(_)
RStrip(l) ==
    IF l # <<>> /\ IsSpace(l[Len(l)]) THEN RStrip(SubSeq(l, 1, Len(l) - 1)) ELSE l
\* line.strip()
Strip(l) == RStrip(LStrip(l))

\* ' ' in line
HasSpace(l) == \E i \in DOMAIN l : l[i] = " "

\* line.rsplit(' ', 1): the position of the last space
LastSpace(l) ==
    CHOOSE i \in DOMAIN l :
        l[i] = " " /\ \A j \in DOMAIN l : l[j] = " " => j <= i
StackPart(l) == SubSeq(l, 1, LastSpace(l) - 1)
UsPart(l) == SubSeq(l, LastSpace(l) + 1, Len(l))

DigitValue(ch) == CHOOSE k \in 0..9 : Digit[k + 1] = ch
IsDigit(ch) == \E k \in 1..10 : Digit[k] = ch
RECURSIVE DigitsValue(_)
\* the value of a string of decimal digits
DigitsValue(u) ==
    IF u = <<>> THEN 0
    ELSE 10 * DigitsValue(SubSeq(u, 1, Len(u) - 1)) + DigitValue(u[Len(u)])
\* int() accepts one leading sign
Unsigned(u) == IF u # <<>> /\ u[1] \in {"-", "+"} THEN Tail(u) ELSE u
\* int(us_part) raises ValueError
IntFails(u) ==
    Unsigned(u) = <<>> \/ \E i \in DOMAIN Unsigned(u) : ~IsDigit(Unsigned(u)[i])
\* int(us_part)
IntOf(u) ==
    IF u # <<>> /\ u[1] = "-" THEN 0 - DigitsValue(Unsigned(u))
    ELSE DigitsValue(Unsigned(u))

RECURSIVE Split(_)
\* stack_part.split(';')
Split(l) ==
    IF \E i \in DOMAIN l : l[i] = ";"
      THEN LET i == CHOOSE i \in DOMAIN l : l[i] = ";" /\ \A j \in 1..(i - 1) : l[j] # ";"
           IN <<SubSeq(l, 1, i - 1)>> \o Split(SubSeq(l, i + 1, Len(l)))
      ELSE <<l>>

\* root = {'_time': 0, 'children': {}}
EmptyTree == [q \in {<<>>} |-> 0]

\* a child created on every visit, the accumulated time lost
Child_AlwaysNew(tree, q) ==
    [r \in DOMAIN tree \cup {q} |-> IF r = q THEN 0 ELSE tree[r]]

\* if frame not in children: children[frame] = {'_time': 0, 'children': {}}
Child(tree, q) ==
    IF q \in DOMAIN tree THEN tree
    ELSE [r \in DOMAIN tree \cup {q} |-> IF r = q THEN 0 ELSE tree[r]]

\* node['_time'] += dur
AddTime(tree, q, dur) == [tree EXCEPT ![q] = @ + dur]

RECURSIVE Walk(_, _, _, _)
\* for frame in frames: from the node at depth k
Walk(tree, frames, k, dur) ==
    IF k = Len(frames) THEN tree
    ELSE LET q == SubSeq(frames, 1, k + 1)
         IN Walk(AddTime(Child(tree, q), q, dur), frames, k + 1, dur)

\* a line without a duration kept as a frame of no time
AddLine_KeepsUnparsed(tree, raw) ==
    LET line == Strip(raw) IN
    IF line = <<>> THEN tree
    ELSE IF ~HasSpace(line) \/ IntFails(UsPart(line)) THEN Child(tree, <<line>>)
    ELSE LET dur == IntOf(UsPart(line))
             frames == Split(StackPart(line))
         IN Walk(AddTime(tree, <<>>, dur), frames, 0, dur)

\* one iteration of the loop over folded_lines
AddLine(tree, raw) ==
    LET line == Strip(raw) IN
    IF line = <<>> \/ ~HasSpace(line) THEN tree
    ELSE IF IntFails(UsPart(line)) THEN tree
    ELSE LET dur == IntOf(UsPart(line))
             frames == Split(StackPart(line))
         IN Walk(AddTime(tree, <<>>, dur), frames, 0, dur)

\* --------------------------- exporters/speedscope.py, cli.py, render
\* A name is a sequence of characters like a line; a word that holds no
\* space, ';' or digit is written as one character.
MaxRows == 3
MaxWalk == 4

\* ATTRIBUTE_KEY_MAP.get(raw_name); "" is None
ATTRIBUTE_KEY_MAP(raw) ==
    CASE raw = <<"subprocess.run">> -> "subprocess.command"
      [] raw = <<"httpx.request">> -> "http.url"
      [] OTHER -> ""

\* json.loads(attr_json): a dict, key |-> value; a value is a string or a
\* list of strings
NoAttrs == [key \in {} |-> <<>>]
StrAttr(key, v) == [q \in {key} |-> [kind |-> "str", val |-> v]]
ListAttr(key, v) == [q \in {key} |-> [kind |-> "list", val |-> v]]

RECURSIVE JoinSpace(_)
\* " ".join(str(x) for x in val)
JoinSpace(l) ==
    IF l = <<>> THEN <<>>
    ELSE IF Len(l) = 1 THEN l[1]
    ELSE l[1] \o <<" ">> \o JoinSpace(Tail(l))

\* attr_key and attr_key in attrs
HasContext(row) ==
    /\ ATTRIBUTE_KEY_MAP(row.name) # ""
    /\ ATTRIBUTE_KEY_MAP(row.name) \in DOMAIN row.attributes

\* suffix, when the attribute is there
Suffix(row) ==
    LET val == row.attributes[ATTRIBUTE_KEY_MAP(row.name)] IN
    IF val.kind = "list" THEN JoinSpace(val.val) ELSE val.val

\* raw_counts[raw_name]
RawCount(rws, raw) == Cardinality({j \in DOMAIN rws : rws[j].name = raw})
\* idx = seen_counts.get(raw_name, 0) + 1
SeenIdx(rws, i) == Cardinality({j \in 1..i : rws[j].name = rws[i].name})

\* every span of a repeated name numbered, the context attribute ignored
DisplayName_IndexOnly(rws, i) ==
    LET raw == rws[i].name IN
    IF RawCount(rws, raw) > 1
      THEN raw \o <<" ", "[">> \o Digits(SeenIdx(rws, i)) \o <<"]">>
      ELSE raw

\* display_name: if count > 1: if suffix: ... else: ... else raw_name
DisplayName(rws, i) ==
    LET raw == rws[i].name IN
    IF RawCount(rws, raw) > 1
      THEN IF HasContext(rws[i]) /\ Suffix(rws[i]) # <<>>
             THEN raw \o <<" ">> \o Suffix(rws[i])
             ELSE raw \o <<" ", "[">> \o Digits(SeenIdx(rws, i)) \o <<"]">>
      ELSE raw

\* load_spans: the dict span_id |-> info, in the order of the rows
load_spans(rws) ==
    [i \in DOMAIN rws |->
        [ id |-> rws[i].span_id,
          parent |-> rws[i].parent_span_id,
          name |-> DisplayName(rws, i),
          start |-> rws[i].start_time,
          end |-> rws[i].end_time ]]

\* spans.get(span_id): the position of the entry, 0 is None
Get(sps, id) ==
    IF \E i \in DOMAIN sps : sps[i].id = id
      THEN CHOOSE i \in DOMAIN sps : sps[i].id = id
      ELSE 0

\* the path returned as it was collected, the span first
Reversed_SelfFirst(l) == l

RECURSIVE Reversed(_)
\* list(reversed(path))
Reversed(l) == IF l = <<>> THEN <<>> ELSE Append(Reversed(Tail(l)), Head(l))

\* the filter of the loop: export_folded, "if dur < min_us: continue";
\* cli.main, "if duration <= 0: continue"
Skipped(mode, dur, min_us) ==
    IF mode = "main" THEN dur <= 0 ELSE dur < min_us

\* render: f"{pct:.1f}" of pct = dur / total_time * 100, in tenths of a
\* percent, for dur >= 0 and total_time > 0
PctTenths(dur, total_time) ==
    LET q == (dur * 1000) \div total_time
        r == (dur * 1000) % total_time
    IN IF 2 * r > total_time \/ (2 * r = total_time /\ q % 2 = 1)
         THEN q + 1 ELSE q

\* ------------------------------------------------- the exporter's inputs
ExRow(id, parent, name, start, end, attrs) ==
    [ span_id |-> id, parent_span_id |-> parent, name |-> name,
      start_time |-> start, end_time |-> end, attributes |-> attrs ]

\* a parent_span_id that no row of the trace carries
Dangling == 9
Letter == <<"A", "B", "C", "D">>

\* rows that differ in raw name and attributes
RawNames == {<<"step">>, <<"httpx.request">>}
AttrChoices ==
    { NoAttrs,
      StrAttr("http.url", <<"u">>),
      StrAttr("http.url", <<>>),
      ListAttr("http.url", << <<"a">>, <<"b">> >>) }
NameRows ==
    UNION {
      { [i \in 1..n |-> ExRow(i, IF i = 1 THEN 0 ELSE 1, nm[i], i, i + 1, at[i])]
          : nm \in [1..n -> RawNames], at \in [1..n -> AttrChoices] }
      : n \in 1..MaxRows }

\* rows that differ in their parent: null, a row, or no row
ParentRows ==
    UNION {
      { [i \in 1..n |-> ExRow(i, pa[i], <<Letter[i]>>, i, i + 1, NoAttrs)]
          : pa \in [1..n -> (0..n) \cup {Dangling}] }
      : n \in 1..MaxRows }

\* rows that differ in start and end, ordered by start_time as the query
\* returns them
TimePairs == {<<0, 0>>, <<0, 2>>, <<1, 0>>, <<1, 2>>}
TimeRows ==
    UNION {
      { [i \in 1..n |-> ExRow(i, IF i = 1 THEN 0 ELSE 1, <<Letter[i]>>,
                              tp[i][1], tp[i][2], NoAttrs)]
          : tp \in {f \in [1..n -> TimePairs] :
                      \A i \in 1..(n - 1) : f[i][1] <= f[i + 1][1]} }
      : n \in 1..MaxRows }
MinUs == {0 - 1, 0, 1, 2}

\* the trace of three spans: A 0..1000000, B 100000..600000 and
\* C 650000..900000, both children of A
ScenarioRows ==
    << ExRow(1, 0, <<"A">>, 0, 1000000, NoAttrs),
       ExRow(2, 1, <<"B">>, 100000, 600000, NoAttrs),
       ExRow(3, 1, <<"C">>, 650000, 900000, NoAttrs) >>

ExStart(rws, mode, min_us) ==
    [ rows |-> rws, mode |-> mode, min_us |-> min_us, pc |-> "load",
      spans |-> <<>>, k |-> 0, cur |-> 0, path |-> <<>>, turn |-> 0,
      out |-> <<>> ]
\* no exporter runs
ExIdle == [ExStart(<<>>, "none", 1) EXCEPT !.pc = "idle"]

\* ------------------------------------------------------------------- Init
Init ==
    /\ pc = [c \in Ctx |-> "idle"]
    /\ lock = "free"
    /\ initialized = FALSE
    /\ conn = "None"
    /\ trace_id = 0
    /\ root_span = 0
    /\ stack = [t \in Threads |-> <<>>]
    /\ spans = <<>>
    /\ calls = [c \in Ctx |-> <<>>]
    /\ rows = <<>>
    /\ now = 1000
    /\ initRuns = 0
    /\ bt_lines = <<>>
    /\ bt_i = 0
    /\ bt_root = EmptyTree
    /\ ex = ExIdle

\* ------------------------------------------------------- init_telemetry
\* init_telemetry without the lock
LockAvailable_NoLock == TRUE

\* with _LOCK: blocks until the lock is free
LockAvailable == lock = "free"

\* start_session / init_telemetry up to the test of _initialized
InitEnter(c) ==
    /\ Idle(c) /\ ThreadFree(c)
    /\ LockAvailable
    /\ IF initialized
         THEN /\ pc' = [pc EXCEPT ![c] = "root"]
              /\ lock' = lock
         ELSE /\ pc' = [pc EXCEPT ![c] = "init"]
              /\ lock' = c
    /\ UNCHANGED <<initialized, conn, trace_id, root_span, initRuns, now>>
    /\ UNCHANGED spanVars /\ UNCHANGED toolVars

\* _trace_id = str(uuid.uuid4())
InitTraceId(c) ==
    /\ pc[c] = "init"
    /\ initRuns < MaxInitRuns
    /\ trace_id' = initRuns + 1
    /\ initRuns' = initRuns + 1
    /\ pc' = [pc EXCEPT ![c] = "init_db"]
    /\ UNCHANGED <<lock, initialized, conn, root_span, now>>
    /\ UNCHANGED spanVars /\ UNCHANGED toolVars

\* _init_db_file(db_file); _initialized = True; the lock is released
InitDbFile(c) ==
    /\ pc[c] = "init_db"
    /\ conn' = "open"
    /\ initialized' = TRUE
    /\ lock' = "free"
    /\ pc' = [pc EXCEPT ![c] = "root"]
    /\ UNCHANGED <<trace_id, root_span, initRuns, now>>
    /\ UNCHANGED spanVars /\ UNCHANGED toolVars

\* init_telemetry called on its own returns here
InitReturn(c) ==
    /\ pc[c] = "root"
    /\ pc' = [pc EXCEPT ![c] = "idle"]
    /\ UNCHANGED <<lock, initialized, conn, trace_id, root_span, initRuns, now>>
    /\ UNCHANGED spanVars /\ UNCHANGED toolVars

\* start_session after init_telemetry: the root span is created and entered
StartSessionRoot(c) ==
    /\ pc[c] = "root"
    /\ Len(spans) < MaxSpans
    /\ LET s == Len(spans) + 1 IN
         /\ spans' = Append(spans, NewSpan("root", c, EnterParent(c)))
         /\ stack' = EnterStack(c, s)
         /\ root_span' = s
    /\ pc' = [pc EXCEPT ![c] = "idle"]
    /\ UNCHANGED <<lock, initialized, conn, trace_id, initRuns, now, calls, rows>>
    /\ UNCHANGED toolVars

\* end_session: the root span is closed, then the connection
EndSession(c) ==
    /\ Idle(c) /\ ThreadFree(c)
    /\ IF root_span # 0
         THEN LET s == root_span
                  closed == ExitFields(spans[s], "return", c)
              IN /\ spans' = [spans EXCEPT ![s] =
                        [closed EXCEPT !.delivered = Delivered("return")]]
                 /\ stack' = ExitStack(c, s)
                 /\ rows' = ExportRows(closed)
                 /\ root_span' = IF ExportRaises THEN root_span ELSE 0
         ELSE /\ UNCHANGED <<spans, stack, rows, root_span>>
    /\ conn' = IF conn = "None" THEN "None" ELSE "closed"
    /\ UNCHANGED <<pc, lock, initialized, trace_id, initRuns, now, calls>>
    /\ UNCHANGED toolVars

\* ------------------------------------------------------------- wrappers
WrapperKinds == {"with", "profile", "block"}

\* with Span(...), the wrapper of @profile, profile_block: up to the work
Begin(c, kind) ==
    /\ Idle(c) /\ ThreadFree(c)
    /\ Len(spans) < MaxSpans
    /\ LET s == Len(spans) + 1 IN
         /\ spans' = Append(spans, NewSpan(kind, c, EnterParent(c)))
         /\ stack' = EnterStack(c, s)
         /\ calls' = [calls EXCEPT ![c] = Append(@, s)]
    /\ UNCHANGED <<rows, now>>
    /\ UNCHANGED sessVars /\ UNCHANGED toolVars

\* the except clause of profile (181-183) and profile_block (204-206)
WrapperMarks(kind, o) ==
    kind \in {"profile", "block"} /\ o \in Failures /\ IsException(o)

\* does the wrapper call __exit__: with always; profile in except or in
\* finally; profile_block in except or in else
WrapperCloses(kind, o) ==
    ~(kind = "block" /\ o \in Failures /\ ~IsException(o))

\* the exc the wrapper hands to __exit__
ExcArg(kind, o) == IF kind = "with" THEN o ELSE "return"

\* the work of the innermost wrapper of c ends with outcome o
Finish(c, o) ==
    /\ Idle(c) /\ ThreadFree(c)
    /\ calls[c] # <<>>
    /\ LET s == Top(calls[c])
           sp == spans[s]
           marked == IF WrapperMarks(sp.kind, o) THEN MarkFailed(sp, o) ELSE sp
           closes == WrapperCloses(sp.kind, o) /\
                     (sp.kind = "profile" /\ ~WrapperMarks(sp.kind, o)
                         => sp.end_time = 0)
           closed == IF closes THEN ExitFields(marked, ExcArg(sp.kind, o), c)
                     ELSE marked
       IN /\ spans' = [spans EXCEPT ![s] =
                 [closed EXCEPT !.work = o,
                                !.delivered = IF closes THEN Delivered(o) ELSE o]]
          /\ stack' = IF closes THEN ExitStack(c, s) ELSE stack
          /\ rows' = IF closes THEN ExportRows(closed) ELSE rows
    /\ calls' = [calls EXCEPT ![c] = SubSeq(@, 1, Len(@) - 1)]
    /\ UNCHANGED now
    /\ UNCHANGED sessVars /\ UNCHANGED toolVars

\* ---------------------------------------------- Span used by hand
\* s = Span(name); s.__enter__()
RawOpen(c) ==
    /\ Idle(c) /\ ThreadFree(c)
    /\ Len(spans) < MaxSpans
    /\ LET s == Len(spans) + 1 IN
         /\ spans' = Append(spans, NewSpan("raw", c, EnterParent(c)))
         /\ stack' = EnterStack(c, s)
    /\ UNCHANGED <<calls, rows, now>>
    /\ UNCHANGED sessVars /\ UNCHANGED toolVars

\* s.__exit__(None, None, None), by any context, in any order
RawClose(c, s) ==
    /\ Idle(c) /\ ThreadFree(c)
    /\ s \in 1..Len(spans)
    /\ spans[s].kind = "raw"
    /\ spans[s].closes < MaxCloses
    /\ LET closed == ExitFields(spans[s], "return", c) IN
         /\ spans' = [spans EXCEPT ![s] =
               [closed EXCEPT !.delivered = Delivered("return")]]
         /\ stack' = ExitStack(c, s)
         /\ rows' = ExportRows(closed)
    /\ UNCHANGED <<calls, now>>
    /\ UNCHANGED sessVars /\ UNCHANGED toolVars

\* time.time_ns() advances
Tick ==
    /\ now < 1000 + MaxTicks * 700
    /\ now' = now + 700
    /\ UNCHANGED sessVars /\ UNCHANGED spanVars /\ UNCHANGED toolVars

Next ==
    \/ \E c \in Ctx : InitEnter(c)
    \/ \E c \in Ctx : InitTraceId(c)
    \/ \E c \in Ctx : InitDbFile(c)
    \/ \E c \in Ctx : InitReturn(c)
    \/ \E c \in Ctx : StartSessionRoot(c)
    \/ \E c \in Ctx : EndSession(c)
    \/ \E c \in Ctx, kind \in WrapperKinds : Begin(c, kind)
    \/ \E c \in Ctx, o \in Outcomes : Finish(c, o)
    \/ \E c \in Ctx : RawOpen(c)
    \/ \E c \in Ctx, s \in 1..MaxSpans : RawClose(c, s)
    \/ Tick

Spec == Init /\ [][Next]_vars

\* ------------------------------------------- set_attribute and add_tag
TagValues == {"v1", "v2"}

\* profile_block(name, tags={"k": v}): the span is entered, then tagged
BeginTagged(c, v) ==
    /\ Idle(c) /\ ThreadFree(c)
    /\ Len(spans) < MaxSpans
    /\ LET s == Len(spans) + 1 IN
         /\ spans' = Append(spans,
               set_attribute(NewSpan("block", c, EnterParent(c)), v, "profile_block"))
         /\ stack' = EnterStack(c, s)
         /\ calls' = [calls EXCEPT ![c] = Append(@, s)]
    /\ UNCHANGED <<rows, now>>
    /\ UNCHANGED sessVars /\ UNCHANGED toolVars

\* add_tag("k", v): stack[-1].set_attribute when the stack is not empty
AddTag(c, v) ==
    /\ Idle(c) /\ ThreadFree(c)
    /\ IF _get_span_stack(c) # <<>>
         THEN LET s == Top(_get_span_stack(c)) IN
              spans' = [spans EXCEPT ![s] = set_attribute(@, v, "add_tag")]
         ELSE spans' = spans
    /\ UNCHANGED <<stack, calls, rows, now>>
    /\ UNCHANGED sessVars /\ UNCHANGED toolVars

\* s.set_attribute("k", v) by a context that holds the span
SetAttribute(c, s, v) ==
    /\ Idle(c) /\ ThreadFree(c)
    /\ s \in 1..Len(spans)
    /\ spans' = [spans EXCEPT ![s] = set_attribute(@, v, "set_attribute")]
    /\ UNCHANGED <<stack, calls, rows, now>>
    /\ UNCHANGED sessVars /\ UNCHANGED toolVars

\* spans opened, tagged and closed; no session is started, so nothing is
\* persisted
NextTags ==
    \/ \E c \in Ctx, kind \in WrapperKinds : Begin(c, kind)
    \/ \E c \in Ctx, v \in TagValues : BeginTagged(c, v)
    \/ \E c \in Ctx, o \in Outcomes : Finish(c, o)
    \/ \E c \in Ctx : RawOpen(c)
    \/ \E c \in Ctx, s \in 1..MaxSpans : RawClose(c, s)
    \/ \E c \in Ctx, v \in TagValues : AddTag(c, v)
    \/ \E c \in Ctx, s \in 1..MaxSpans, v \in TagValues : SetAttribute(c, s, v)

SpecTags == Init /\ [][NextTags]_vars

\* ------------------------------------------------- the wall clock
\* time.time_ns() follows the system clock, which can be set back between
\* two calls
ClockSetBack ==
    /\ now >= 2 * 700
    /\ now' = now - 2 * 700
    /\ UNCHANGED sessVars /\ UNCHANGED spanVars /\ UNCHANGED toolVars

\* one thread runs a session and spans opened and closed by hand, under a
\* clock that is advanced and set back
ClockCtx == {"c1"}
NextClock ==
    \/ \E c \in ClockCtx : InitEnter(c)
    \/ \E c \in ClockCtx : InitTraceId(c)
    \/ \E c \in ClockCtx : InitDbFile(c)
    \/ \E c \in ClockCtx : InitReturn(c)
    \/ \E c \in ClockCtx : StartSessionRoot(c)
    \/ \E c \in ClockCtx : EndSession(c)
    \/ \E c \in ClockCtx : RawOpen(c)
    \/ \E c \in ClockCtx, s \in 1..MaxSpans : RawClose(c, s)
    \/ Tick
    \/ ClockSetBack

SpecClock == Init /\ [][NextClock]_vars

\* --------------------------------------------------- build_tree, run
SessionIdle ==
    /\ pc = [c \in Ctx |-> "idle"]
    /\ lock = "free"
    /\ initialized = FALSE
    /\ conn = "None"
    /\ trace_id = 0
    /\ root_span = 0
    /\ stack = [t \in Threads |-> <<>>]
    /\ spans = <<>>
    /\ calls = [c \in Ctx |-> <<>>]
    /\ rows = <<>>
    /\ now = 1000
    /\ initRuns = 0

InitTree ==
    /\ SessionIdle
    /\ bt_lines \in UNION {[1..n -> Lines] : n \in 0..MaxLines}
    /\ bt_i = 0
    /\ bt_root = EmptyTree
    /\ ex = ExIdle

\* build_tree consumes the next line
BuildTreeLine ==
    /\ bt_i < Len(bt_lines)
    /\ bt_root' = AddLine(bt_root, bt_lines[bt_i + 1])
    /\ bt_i' = bt_i + 1
    /\ UNCHANGED <<bt_lines, now, ex>>
    /\ UNCHANGED sessVars /\ UNCHANGED spanVars

NextTree == BuildTreeLine

SpecTree == InitTree /\ [][NextTree]_vars

\* ------------------------------------------------- the exporter, run
InitExport ==
    /\ SessionIdle
    /\ bt_lines = <<>>
    /\ bt_i = 0
    /\ bt_root = EmptyTree
    /\ \/ \E rws \in NameRows \cup ParentRows :
             ex = ExStart(rws, "export_folded", 1)
       \/ \E rws \in TimeRows, m \in MinUs :
             ex = ExStart(rws, "export_folded", m)
       \/ \E rws \in TimeRows : ex = ExStart(rws, "main", 1)
       \/ \E mode \in {"export_folded", "main"} :
             ex = ExStart(ScenarioRows, mode, 1)

\* spans = load_spans(db, trace_id)
LoadSpans ==
    /\ ex.pc = "load"
    /\ ex' = [ex EXCEPT !.spans = load_spans(ex.rows), !.pc = "export", !.k = 1]
    /\ UNCHANGED <<now, bt_lines, bt_i, bt_root>>
    /\ UNCHANGED sessVars /\ UNCHANGED spanVars

\* for sid, info in spans.items(): the duration test, then build_path begins
ExportSpan ==
    /\ ex.pc = "export"
    /\ ex.k <= Len(ex.spans)
    /\ LET info == ex.spans[ex.k]
           dur == info.end - info.start
       IN IF Skipped(ex.mode, dur, ex.min_us)
            THEN ex' = [ex EXCEPT !.k = @ + 1]
            ELSE ex' = [ex EXCEPT !.pc = "walk", !.cur = info.id, !.path = <<>>,
                                  !.turn = 0]
    /\ UNCHANGED <<now, bt_lines, bt_i, bt_root>>
    /\ UNCHANGED sessVars /\ UNCHANGED spanVars

\* build_path: one turn of "while current", or its end and the line written;
\* of a path longer than MaxWalk the first MaxWalk names are kept, of the
\* number of turns its parity
PathStep ==
    /\ ex.pc = "walk"
    /\ LET at == Get(ex.spans, ex.cur)
           info == ex.spans[ex.k]
       IN IF at # 0
            THEN ex' = [ex EXCEPT
                     !.path = IF Len(@) < MaxWalk
                                THEN Append(@, ex.spans[at].name) ELSE @,
                     !.turn = 1 - @,
                     !.cur = ex.spans[at].parent]
            ELSE ex' = [ex EXCEPT
                     !.path = Reversed(@),
                     !.out = Append(@, FoldedLine(Reversed(ex.path),
                                                  info.end - info.start)),
                     !.k = @ + 1,
                     !.pc = "export"]
    /\ UNCHANGED <<now, bt_lines, bt_i, bt_root>>
    /\ UNCHANGED sessVars /\ UNCHANGED spanVars

\* the loop is over: the lines reach build_tree, from folded_lines in
\* cli.main, through print and sys.stdin.readlines() after export_folded
ExportEnd ==
    /\ ex.pc = "export"
    /\ ex.k > Len(ex.spans)
    /\ ex' = [ex EXCEPT !.pc = "tree"]
    /\ bt_lines' = IF ex.mode = "main" THEN ex.out
                   ELSE [i \in DOMAIN ex.out |-> ex.out[i] \o <<"\n">>]
    /\ bt_i' = 0
    /\ bt_root' = EmptyTree
    /\ UNCHANGED now
    /\ UNCHANGED sessVars /\ UNCHANGED spanVars

NextExport ==
    \/ LoadSpans
    \/ ExportSpan
    \/ PathStep
    \/ ExportEnd
    \/ BuildTreeLine

SpecExport == InitExport /\ [][NextExport]_vars

\* the interpreter keeps running the loop it is in
SpecExportRuns == SpecExport /\ WF_vars(PathStep)

\* =================================================================== claims
SpanIds == 1..Len(spans)
RowsOf(rs, s) == {i \in DOMAIN rs : rs[i].span_id = s}
\* the step closes span s: __exit__ ran on it
Closes(s) == spans'[s].closes # spans[s].closes

\* C1: __enter__ gives a new span the top of the calling thread's own stack
\* as parent (none when that stack is empty) and pushes the span on that
\* stack; the stack of every other thread is unchanged.
C1_EnterUsesOwnStack ==
    [][Len(spans') = Len(spans) + 1 =>
        LET s == Len(spans')
            t == ThreadOf[spans'[s].opener]
        IN /\ spans'[s].parent = Top(stack[t])
           /\ stack'[t] = Append(stack[t], s)
           /\ Top(stack'[t]) = s
           /\ \A u \in Threads \ {t} : stack'[u] = stack[u]]_vars

\* a span was opened under an open span of its own thread
C1_Witness ==
    \E s \in SpanIds :
        /\ spans[s].parent # 0
        /\ stack[ThreadOf[spans[s].opener]] = <<spans[s].parent, s>>

\* C2: __exit__ pops the span from the calling thread's stack only when it
\* is the top and otherwise leaves every stack as it was; either way the
\* span gets its end time and, with the store open, its row is appended.
C2_ExitPopsOnlyTop ==
    [][\A s \in SpanIds : Closes(s) =>
        LET t == spans'[s].closer IN
        /\ stack'[t] = IF Top(stack[t]) = s
                         THEN SubSeq(stack[t], 1, Len(stack[t]) - 1)
                         ELSE stack[t]
        /\ \A u \in Threads \ {t} : stack'[u] = stack[u]
        /\ spans'[s].end_time = now
        /\ conn = "open" =>
             /\ Len(rows') = Len(rows) + 1
             /\ rows'[Len(rows')].span_id = s
             /\ rows'[Len(rows')].end_time = ToMicros(now)]_vars

\* a span closed by its own thread while a span opened earlier than the
\* close was above it: it has its row and both are still on the stack
C2_Witness ==
    \E s \in SpanIds, t \in Threads :
        /\ spans[s].closes = 1 /\ spans[s].closer = t
        /\ Len(stack[t]) = 2 /\ stack[t][1] = s
        /\ spans[stack[t][2]].start_time < spans[s].end_time
        /\ RowsOf(rows, s) # {}

\* C3: the row a wrapper persists has status_code 1 and the failure's string
\* as "exception" when the work failed, and status_code 0 when it returned.
C3_FailureRecorded ==
    \A i \in DOMAIN rows :
        LET sp == spans[rows[i].span_id] IN
        /\ sp.work \in Failures =>
             rows[i].status_code = 1 /\ rows[i].exception = Str(sp.work)
        /\ sp.work = "return" => rows[i].status_code = 0

\* C4: the failure of the wrapped work reaches the caller as itself.
C4_FailureReachesCaller ==
    \A s \in SpanIds :
        spans[s].work \in Failures => spans[s].delivered = spans[s].work

\* C5: no open or close of a span, and no end_session, raises a failure of
\* the store into the application.
C5_PersistFailureContained ==
    \A s \in SpanIds : spans[s].delivered # "ProgrammingError"

\* C6: every execution context has a span stack of its own, so the parent
\* of a span was opened by the same thread or task as the span.
C6_ContextsIndependent ==
    \A s \in SpanIds :
        spans[s].parent # 0 => spans[spans[s].parent].opener = spans[s].opener

TraceRows(tr) == SelectSeq(rows, LAMBDA r : r.trace_id = tr)
RECURSIVE ReachesRoot(_, _, _)
\* the parent chain of span id leads to a row with null parent
ReachesRoot(rs, id, fuel) ==
    /\ fuel > 0
    /\ RowsOf(rs, id) # {}
    /\ \A i \in RowsOf(rs, id) :
          rs[i].parent_span_id = 0 \/ ReachesRoot(rs, rs[i].parent_span_id, fuel - 1)

SessionEnded == conn = "closed" /\ root_span = 0
NoSpanOpen ==
    /\ \A s \in SpanIds : spans[s].end_time # 0
    /\ \A c \in Ctx : pc[c] = "idle"

\* C8: once end_session has returned and no span is open, every trace has
\* exactly one row with null parent and every other row descends from it.
C8_SingleRootTree ==
    (SessionEnded /\ NoSpanOpen) =>
        \A tr \in {rows[i].trace_id : i \in DOMAIN rows} :
            LET rs == TraceRows(tr) IN
            /\ Cardinality({i \in DOMAIN rs : rs[i].parent_span_id = 0}) = 1
            /\ \A i \in DOMAIN rs : ReachesRoot(rs, rs[i].span_id, Len(rs))

IsWellFormed(l) == l \in WellFormedLines
PathOf(l) == CHOOSE p \in Paths : \E d \in Durs : Strip(l) = FoldedLine(p, d)
DurOf(l) == CHOOSE d \in Durs : \E p \in Paths : Strip(l) = FoldedLine(p, d)
\* the node q lies on the path p
PassesThrough(p, q) == Len(q) <= Len(p) /\ SubSeq(p, 1, Len(q)) = q

RECURSIVE SumThrough(_, _, _)
\* the durations of the first n lines whose path passes through q
SumThrough(ls, n, q) ==
    IF n = 0 THEN 0
    ELSE SumThrough(ls, n - 1, q)
           + (IF PassesThrough(PathOf(ls[n]), q) THEN DurOf(ls[n]) ELSE 0)

\* C10: after any number of well-formed lines, the nodes of the tree are the
\* root and the prefixes of the lines' paths, and the time of each node is
\* the sum of the durations of the lines whose path passes through it; the
\* root holds the sum of all durations.
C10_NodeTimeIsSumOfPaths ==
    (\A i \in 1..bt_i : IsWellFormed(bt_lines[i])) =>
        /\ DOMAIN bt_root =
             {<<>>} \cup UNION {{SubSeq(PathOf(bt_lines[i]), 1, k) :
                                     k \in 1..Len(PathOf(bt_lines[i]))} :
                                   i \in 1..bt_i}
        /\ \A q \in DOMAIN bt_root : bt_root[q] = SumThrough(bt_lines, bt_i, q)

\* two lines through one node were consumed: a shared first frame, the
\* second line one frame deeper
C10_Witness ==
    /\ bt_i = 2
    /\ IsWellFormed(bt_lines[1]) /\ IsWellFormed(bt_lines[2])
    /\ Len(PathOf(bt_lines[1])) = 1 /\ Len(PathOf(bt_lines[2])) = 2
    /\ PathOf(bt_lines[2])[1] = PathOf(bt_lines[1])[1]
    /\ bt_root[PathOf(bt_lines[1])] = DurOf(bt_lines[1]) + DurOf(bt_lines[2])


\* the exporter has written its lines and build_tree has consumed them
ExDone == ex.pc = "tree" /\ bt_i = Len(bt_lines)
NodeAB == << <<"A">>, <<"B">> >>
NodeAC == << <<"A">>, <<"C">> >>

\* C11: for the trace A 0..1000000 with children B 100000..600000 and
\* C 650000..900000 the exporter writes "A 1000000", "A;B 500000" and
\* "A;C 250000"; build_tree and render on these lines give a root total of
\* 1000000, node B 500000 shown as 50.0% and node C 250000 shown as 25.0%.
C11_ScenarioTotals ==
    (ex.rows = ScenarioRows /\ ExDone) =>
        /\ ex.out = << <<"A", " ", "1", "0", "0", "0", "0", "0", "0">>,
                       <<"A", ";", "B", " ", "5", "0", "0", "0", "0", "0">>,
                       <<"A", ";", "C", " ", "2", "5", "0", "0", "0", "0">> >>
        /\ bt_root[<<>>] = 1000000
        /\ NodeAB \in DOMAIN bt_root /\ bt_root[NodeAB] = 500000
        /\ NodeAC \in DOMAIN bt_root /\ bt_root[NodeAC] = 250000
        /\ PctTenths(bt_root[NodeAB], bt_root[<<>>]) = 500
        /\ PctTenths(bt_root[NodeAC], bt_root[<<>>]) = 250

\* the exporter's loop over the loaded spans is over
ExportOver == ex.pc = "tree"
DurAt(sps, i) == sps[i].end - sps[i].start

RECURSIVE Ancestry(_, _, _)
\* root-first, the names of span i and of its ancestors up to the first one
\* whose parent is null or not loaded
Ancestry(sps, i, fuel) ==
    LET p == Get(sps, sps[i].parent) IN
    IF p = 0 \/ fuel = 0 THEN <<sps[i].name>>
    ELSE Append(Ancestry(sps, p, fuel - 1), sps[i].name)

\* the parent chain of span i ends
RECURSIVE Rooted(_, _, _)
Rooted(sps, i, fuel) ==
    LET p == Get(sps, sps[i].parent) IN
    p = 0 \/ (fuel > 0 /\ Rooted(sps, p, fuel - 1))

RECURSIVE ClaimedLines(_, _, _)
\* in load order, "path duration" for the spans from i on that last at least
\* min_us and longer than zero
ClaimedLines(sps, i, min_us) ==
    IF i > Len(sps) THEN <<>>
    ELSE (IF DurAt(sps, i) >= min_us /\ DurAt(sps, i) > 0
            THEN <<Join(Ancestry(sps, i, Len(sps))) \o <<" ">>
                       \o IntStr(DurAt(sps, i))>>
            ELSE <<>>)
         \o ClaimedLines(sps, i + 1, min_us)

\* C12: export_folded(spans, min_duration) writes, in load order, one line
\* "root-first path joined by ';', a space, the duration" for exactly the
\* spans whose duration is at least min_duration, and whatever min_duration
\* is (0 and negative values too) never a line for a span whose duration is
\* zero or negative.
C12_EmitsAtLeastMin ==
    (ExportOver /\ ex.mode = "export_folded") =>
        ex.out = ClaimedLines(ex.spans, 1, ex.min_us)

\* the text of the context attribute of row i, as the claim words it
ContextPresent(rws, i) ==
    /\ ATTRIBUTE_KEY_MAP(rws[i].name) # ""
    /\ ATTRIBUTE_KEY_MAP(rws[i].name) \in DOMAIN rws[i].attributes
ContextText(rws, i) ==
    LET val == rws[i].attributes[ATTRIBUTE_KEY_MAP(rws[i].name)] IN
    IF val.kind = "list" THEN JoinSpace(val.val) ELSE val.val
SameName(rws, i) == {j \in DOMAIN rws : rws[j].name = rws[i].name}
Numbered(rws, i) ==
    rws[i].name \o <<" ", "[">>
        \o Digits(Cardinality({j \in SameName(rws, i) : j <= i})) \o <<"]">>
Loaded == ex.pc \in {"export", "walk", "tree"}

\* C13 as stated: a raw name that occurs once is kept; for a raw name that
\* occurs more than once, a span on which the mapped context attribute is
\* present is named "raw value" (a list joined by spaces) and every other
\* span "raw [k]", k its 1-based position among the spans of that raw name.
C13_ContextWheneverPresent ==
    Loaded =>
        \A i \in DOMAIN ex.rows :
            ex.spans[i].name =
                IF Cardinality(SameName(ex.rows, i)) = 1 THEN ex.rows[i].name
                ELSE IF ContextPresent(ex.rows, i)
                  THEN ex.rows[i].name \o <<" ">> \o ContextText(ex.rows, i)
                  ELSE Numbered(ex.rows, i)

\* C13: a raw name that occurs once is kept; for a raw name that occurs more
\* than once, a span on which the mapped context attribute is present with a
\* non-empty text is named "raw text" (a list joined by spaces) and every
\* other span, one whose context attribute is the empty string or an empty
\* list included, "raw [k]", k its 1-based position in load order among the
\* spans of that raw name.
C13_DisplayNames ==
    Loaded =>
        \A i \in DOMAIN ex.rows :
            ex.spans[i].name =
                IF Cardinality(SameName(ex.rows, i)) = 1 THEN ex.rows[i].name
                ELSE IF ContextPresent(ex.rows, i) /\ ContextText(ex.rows, i) # <<>>
                  THEN ex.rows[i].name \o <<" ">> \o ContextText(ex.rows, i)
                  ELSE Numbered(ex.rows, i)

\* three spans of one mapped raw name were loaded: the first with a text,
\* the second with an empty text and numbered, the third with none
C13_Witness ==
    /\ Loaded
    /\ Len(ex.rows) = 3
    /\ \A i \in 1..3 : ex.rows[i].name = <<"httpx.request">>
    /\ ex.spans[1].name = <<"httpx.request", " ", "u">>
    /\ ContextPresent(ex.rows, 2) /\ ContextText(ex.rows, 2) = <<>>
    /\ ex.spans[2].name = <<"httpx.request", " ", "[", "2", "]">>
    /\ ~ContextPresent(ex.rows, 3)
    /\ ex.spans[3].name = <<"httpx.request", " ", "[", "3", "]">>

\* C14: build_path returns, root-first, the display names of the span and
\* of its ancestors up to the first one whose parent id is null or is not
\* loaded; for a span whose own parent is null or not loaded that is one
\* element, its own display name.
C14_PathRootFirst ==
    [][(ex.pc = "walk" /\ ex'.pc = "export") =>
          /\ ex'.path = Ancestry(ex.spans, ex.k, Len(ex.spans))
          /\ Rooted(ex.spans, ex.k, Len(ex.spans))
          /\ Get(ex.spans, ex.spans[ex.k].parent) = 0
                => ex'.path = <<ex.spans[ex.k].name>>]_vars

\* paths were returned for a root, for its child, and for a grandchild whose
\* line names the three of them root-first
C14_Witness ==
    /\ ex.pc = "export" /\ ex.k = 4
    /\ ex.path = << <<"A">>, <<"B">>, <<"C">> >>
    /\ ex.spans[1].parent = 0 /\ ex.spans[2].parent = 1 /\ ex.spans[3].parent = 2
    /\ ex.out = << <<"A", " ", "1">>,
                   <<"A", ";", "B", " ", "1">>,
                   <<"A", ";", "B", ";", "C", " ", "1">> >>

\* the step writes attributes["k"] of span s through add_tag
TaggedByAddTag(s) ==
    /\ s \in DOMAIN spans
    /\ <<spans'[s].tag, spans'[s].tagged_by>> # <<spans[s].tag, spans[s].tagged_by>>
    /\ spans'[s].tagged_by = "add_tag"
IsOpen(s) == spans[s].end_time = 0
\* s is the highest open span on a thread's stack
TopmostOpen(s) ==
    \E t \in Threads : \E i \in DOMAIN stack[t] :
        /\ stack[t][i] = s
        /\ IsOpen(s)
        /\ \A j \in DOMAIN stack[t] : j > i => ~IsOpen(stack[t][j])

\* C15: add_tag writes the attribute on the topmost open span of a thread's
\* stack and on no other span; whatever opens and closes came before, it
\* never writes on a span that is already closed, and with no open span it
\* changes nothing.
C15_AddTagOnlyOpenTop ==
    [][\A s \in 1..MaxSpans : TaggedByAddTag(s) => IsOpen(s) /\ TopmostOpen(s)]_vars

\* C16: once a span is closed its attributes no longer change: a
\* set_attribute call on it leaves attributes["k"] as it was.
C16_ClosedSpanImmutable ==
    [][\A s \in DOMAIN spans : ~IsOpen(s) => spans'[s].tag = spans[s].tag]_vars

\* C19: every closed span has end_time >= start_time, and every persisted
\* row has end_time >= start_time after both were converted to integer
\* microseconds, whatever the order of opens and closes.
C19_EndNotBeforeStart ==
    /\ \A s \in DOMAIN spans :
          spans[s].end_time # 0 => spans[s].end_time >= spans[s].start_time
    /\ \A i \in DOMAIN rows : rows[i].end_time >= rows[i].start_time

\* C20: closing a span while _conn is None appends no row and raises
\* nothing; the span still gets its end time and is popped from the closing
\* thread's stack if it is the top, the other stacks staying as they are.
C20_NoHandleNoRow ==
    [][\A s \in DOMAIN spans :
          (Closes(s) /\ conn = "None") =>
              /\ rows' = rows
              /\ spans'[s].delivered # "ProgrammingError"
              /\ spans'[s].end_time = now
              /\ LET t == spans'[s].closer IN
                   /\ stack'[t] =
                        IF stack[t] # <<>> /\ stack[t][Len(stack[t])] = s
                          THEN SubSeq(stack[t], 1, Len(stack[t]) - 1)
                          ELSE stack[t]
                   /\ \A u \in Threads \ {t} : stack'[u] = stack[u]]_vars

\* before any initialization a span was opened and closed on its own thread:
\* it has an end time, its stack is empty again and there is no row
C20_Witness ==
    /\ conn = "None" /\ initRuns = 0
    /\ \E s \in DOMAIN spans :
          /\ spans[s].closes = 1
          /\ spans[s].end_time # 0
          /\ spans[s].closer = ThreadOf[spans[s].opener]
          /\ spans[s].delivered = "return"
          /\ stack[spans[s].closer] = <<>>
    /\ rows = <<>>

\* C17: end_session closes the root span of the session, which gets an end
\* time and whose row is written, before it closes the connection, and
\* raises nothing; an end_session with no session open writes no row and
\* raises nothing.
C17_RootPersistedThenHandleClosed ==
    [][/\ (root_span # 0 /\ Closes(root_span)) =>
              /\ spans'[root_span].end_time = now
              /\ Len(rows') = Len(rows) + 1
              /\ SubSeq(rows', 1, Len(rows)) = rows
              /\ rows'[Len(rows')].span_id = root_span
              /\ spans'[root_span].delivered = "return"
              /\ conn' = "closed"
       /\ (root_span = 0 /\ conn' # conn) => rows' = rows /\ spans' = spans]_vars

NotMalformed(l) == l \notin MalformedLines
\* the lines consumed so far, the malformed ones removed
KeptLines == SelectSeq(SubSeq(bt_lines, 1, bt_i), NotMalformed)
RECURSIVE TreeOf(_, _)
\* the tree of the first n lines of ls
TreeOf(ls, n) == IF n = 0 THEN EmptyTree ELSE AddLine(TreeOf(ls, n - 1), ls[n])

\* C18: build_tree skips a malformed line (empty, without a space before a
\* duration, with a duration that is no integer): whatever the input, the
\* tree is the tree of the same lines with the malformed ones removed.
C18_MalformedSkipped == bt_root = TreeOf(KeptLines, Len(KeptLines))

\* a line with a non-integer duration was consumed before a well-formed
\* line of the same frame, whose duration is all the tree holds
C18_Witness ==
    /\ bt_i = 2
    /\ bt_lines[1] = <<"a", " ", "1", "x">>
    /\ bt_lines[2] = <<"a", " ", "2", "5">>
    /\ bt_root = [q \in {<<>>, << <<"a">> >>} |-> 25]

\* C23: after load_spans two different spans whose raw names each occur
\* more than once never carry the same display name.
C23_RepeatedNamesDistinct ==
    Loaded =>
        \A i, j \in DOMAIN ex.rows :
            (i # j /\ Cardinality(SameName(ex.rows, i)) > 1
                   /\ Cardinality(SameName(ex.rows, j)) > 1)
                => ex.spans[i].name # ex.spans[j].name

\* C22: build_path terminates for every span id and every loaded mapping,
\* one whose parent pointers lead back to a span already visited included:
\* a walk that has begun returns.
C22_BuildPathTerminates == (ex.pc = "walk") ~> (ex.pc = "export")

\* the step ends the work of the innermost wrapper of context c
WorkEnds(c) == Len(calls'[c]) < Len(calls[c])

\* C21: when the work wrapped by with Span, @profile or profile_block has
\* returned or propagated a failure of any kind, the wrapper's span is
\* closed and the calling thread's stack is as it was before the wrapper was
\* entered: the span is no longer on it and its top is the span's parent,
\* or the stack is empty when the span has none.
C21_WrapperRestoresStack ==
    [][\A c \in Ctx :
          WorkEnds(c) =>
              LET s == calls[c][Len(calls[c])]
                  st == stack'[ThreadOf[c]]
              IN /\ spans'[s].end_time # 0
                 /\ \A i \in DOMAIN st : st[i] # s
                 /\ (IF st = <<>> THEN 0 ELSE st[Len(st)]) = spans[s].parent]_vars
====
